---- MODULE Spec2Model ----
(***************************************************************************)
(* pw-volume (src/src/main.rs): resolution of the default audio sink in a  *)
(* pw-dump snapshot and construction of the pw-cli Route command.          *)
(*                                                                         *)
(* Volumes are f64 in the source.  Here a volume v is the integer 1000*v   *)
(* (so 1.0 is 1000 and 0.424 is 424) and a percentage p is the integer     *)
(* 10*p (tenths of a percent), which makes `percent * 0.01` and            *)
(* `vol * 100.0` both the identity on the integer representation.          *)
(* Floating-point rounding of the additions is outside the model.          *)
(***************************************************************************)
EXTENDS Integers, Sequences, FiniteSets, TLC

\* ------------------------------------------------------------------ bounds
MaxObjs == 4
MaxChannels == 2
MaxRuns == 2

\* --------------------------------------------------------------- constants
MetadataType == "PipeWire:Interface:Metadata"
NodeType == "PipeWire:Interface:Node"
DeviceType == "PipeWire:Interface:Device"
SinkKey == "default.audio.sink"
OutputDirection == "Output"
VolMin == 0
VolMax == 1000

None == [kind |-> "None"]

\* ------------------------------------------------------- the object model
\* MetadataValue: the untagged union {Name{name}, Value}
NameValue(n) == [shape |-> "Name", name |-> n]
OpaqueValue == [shape |-> "Value"]
Metadata(k, v) == [key |-> k, value |-> v]

PipeWireInterfaceMetadata(t, entries) ==
  [kind |-> "Metadata", typ |-> t, metadata |-> entries]

PipeWireInterfaceNode(i, t, name, dev, cpd) ==
  [kind |-> "Node", id |-> i, typ |-> t,
   info |-> [props |-> [card_profile_device |-> cpd, device_id |-> dev,
                        node_name |-> name]]]

DeviceRoute(idx, dir, m, cv) ==
  [index |-> idx, direction |-> dir,
   props |-> [mute |-> m, channel_volumes |-> cv]]

PipeWireInterfaceDevice(i, t, routes) ==
  [kind |-> "Device", id |-> i, typ |-> t,
   info |-> [params |-> [route |-> routes]]]

\* PipeWireObject::Value: an entry that matches none of the known shapes
UnknownObject == [kind |-> "Value"]

\* ------------------------------------------------------------- parse_dump
Ok(n, r) == [ok |-> TRUE, node |-> n, route |-> r]
Err(e) == [ok |-> FALSE, err |-> e]

ErrSink == "failed to determine default audio sink"
ErrNode == "failed to find node for audio sink"
ErrDevice == "failed to find device"
ErrRoute == "failed to find output route"
ErrChannels == "no volume channels present"

\* filter_map: Metadata objects of the metadata interface type
IsMetadataObject_NoType(o) == o.kind = "Metadata"
IsMetadataObject(o) == o.kind = "Metadata" /\ o.typ = MetadataType

\* filter_map(..).flat_map(|md| &md.metadata): the entries, in input order
RECURSIVE FlatMetadata(_)
FlatMetadata(obj) ==
  IF obj = <<>> THEN <<>>
  ELSE (IF IsMetadataObject(Head(obj)) THEN Head(obj).metadata ELSE <<>>)
       \o FlatMetadata(Tail(obj))

IsSinkEntry(md) == md.value.shape = "Name" /\ md.key = SinkKey

\* find_map over the entries: the first name-shaped default.audio.sink
RECURSIVE FindSinkEntry(_)
FindSinkEntry(entries) ==
  IF entries = <<>> THEN None
  ELSE IF IsSinkEntry(Head(entries))
       THEN [kind |-> "Some", name |-> Head(entries).value.name]
       ELSE FindSinkEntry(Tail(entries))

DefaultAudioSink(obj) == FindSinkEntry(FlatMetadata(obj))

IsSinkNode(o, sink) ==
  o.kind = "Node" /\ o.typ = NodeType /\ o.info.props.node_name = sink

\* find_map over the objects: the first node named like the sink
RECURSIVE FindNode_Last(_, _)
FindNode_Last(obj, sink) ==
  IF obj = <<>> THEN None
  ELSE IF IsSinkNode(obj[Len(obj)], sink) THEN obj[Len(obj)]
       ELSE FindNode_Last(SubSeq(obj, 1, Len(obj) - 1), sink)

RECURSIVE FindNode(_, _)
FindNode(obj, sink) ==
  IF obj = <<>> THEN None
  ELSE IF IsSinkNode(Head(obj), sink) THEN Head(obj)
       ELSE FindNode(Tail(obj), sink)

IsNodeDevice(o, dev) ==
  o.kind = "Device" /\ o.typ = DeviceType /\ o.id = dev

\* find_map over the objects: the first device with the node's device.id
RECURSIVE FindDevice(_, _)
FindDevice(obj, dev) ==
  IF obj = <<>> THEN None
  ELSE IF IsNodeDevice(Head(obj), dev) THEN Head(obj)
       ELSE FindDevice(Tail(obj), dev)

\* find over the device's routes: the first one with direction "Output"
RECURSIVE FindOutputRoute(_)
FindOutputRoute(routes) ==
  IF routes = <<>> THEN None
  ELSE IF Head(routes).direction = OutputDirection
       THEN [kind |-> "Some", route |-> Head(routes)]
       ELSE FindOutputRoute(Tail(routes))

parse_dump(obj) ==
  LET default_audio_sink == DefaultAudioSink(obj) IN
  IF default_audio_sink = None THEN Err(ErrSink)
  ELSE
  LET node == FindNode(obj, default_audio_sink.name) IN
  IF node = None THEN Err(ErrNode)
  ELSE
  LET device == FindDevice(obj, node.info.props.device_id) IN
  IF device = None THEN Err(ErrDevice)
  ELSE
  LET found == FindOutputRoute(device.info.params.route) IN
  IF found = None THEN Err(ErrRoute)
  ELSE IF found.route.props.channel_volumes = <<>> THEN Err(ErrChannels)
  ELSE Ok(node, found.route)

\* ------------------------------------------------- command-line arguments
\* A DELTA argument is the sequence of its characters.
Digits == <<"0", "1", "2", "3", "4", "5", "6", "7", "8", "9">>
IsDigit(c) == \E i \in 1..10 : Digits[i] = c
DigitVal(c) == (CHOOSE i \in 1..10 : Digits[i] = c) - 1

AllDigits(s) == \A i \in 1..Len(s) : IsDigit(s[i])

\* the decimal value of a digit string, most significant digit first
RECURSIVE Number(_)
Number(ds) ==
  IF ds = <<>> THEN 0
  ELSE 10 * Number(SubSeq(ds, 1, Len(ds) - 1)) + DigitVal(ds[Len(ds)])

\* str::parse::<f32>/<f64> on [sign] digits [. digits] (at least one digit).
\* The value is in tenths; the deltas of the model carry at most one
\* fractional digit.  Exponents, "inf" and "nan" are not in the model.
ParseFloat(s) ==
  LET signed == s # <<>> /\ s[1] \in {"+", "-"}
      body == IF signed THEN Tail(s) ELSE s
      dots == { i \in 1..Len(body) : body[i] = "." }
      int == IF dots = {} THEN body
             ELSE SubSeq(body, 1, (CHOOSE i \in dots : TRUE) - 1)
      frac == IF dots = {} THEN <<>>
              ELSE SubSeq(body, (CHOOSE i \in dots : TRUE) + 1, Len(body))
      wellformed == /\ Cardinality(dots) <= 1
                    /\ AllDigits(int) /\ AllDigits(frac)
                    /\ Len(int) + Len(frac) >= 1
      magnitude == 10 * Number(int) + (IF frac = <<>> THEN 0 ELSE DigitVal(frac[1]))
  IN IF wellformed
     THEN [ok |-> TRUE,
           value |-> IF signed /\ s[1] = "-" THEN 0 - magnitude ELSE magnitude]
     ELSE [ok |-> FALSE]

\* str::strip_suffix('%')
StripSuffix(value) ==
  IF value # <<>> /\ value[Len(value)] = "%"
  THEN [kind |-> "Some", rest |-> SubSeq(value, 1, Len(value) - 1)]
  ELSE None

is_decimal_percentage(value) ==
  StripSuffix(value) # None /\ ParseFloat(StripSuffix(value).rest).ok

Transitions == {"on", "off", "toggle"}

\* App::get_matches: a rejected command line prints usage and exits
\* (argv[1] is the program's name)
get_matches(argv) ==
  IF Len(argv) < 2 THEN [ok |-> FALSE]
  ELSE IF argv[2] = "mute" /\ Len(argv) = 3 /\ argv[3] \in Transitions
    THEN [ok |-> TRUE, subcommand |-> "mute", TRANSITION |-> argv[3]]
  ELSE IF argv[2] = "change" /\ Len(argv) = 3 /\ is_decimal_percentage(argv[3])
    THEN [ok |-> TRUE, subcommand |-> "change", DELTA |-> argv[3]]
  ELSE IF argv[2] = "status" /\ Len(argv) = 2
    THEN [ok |-> TRUE, subcommand |-> "status"]
  ELSE [ok |-> FALSE]

\* ------------------------------------------------------------------ pw_cli
\* PipeWireCommand { index, device, ..Default::default() }
DefaultCommand_DeviceId(node, route) ==
  [index |-> route.index, device |-> node.info.props.device_id,
   props |-> [mute |-> FALSE, channel_volumes |-> <<>>]]

DefaultCommand(node, route) ==
  [index |-> route.index, device |-> node.info.props.card_profile_device,
   props |-> [mute |-> FALSE, channel_volumes |-> <<>>]]

\* the "mute" arm
MuteTransition_NoInvert(transition, route) ==
  CASE transition = "on" -> TRUE
    [] transition = "toggle" -> route.props.mute
    [] OTHER -> FALSE

MuteTransition(transition, route) ==
  CASE transition = "on" -> TRUE
    [] transition = "toggle" -> ~route.props.mute
    [] OTHER -> FALSE

\* f64::clamp
Clamp_LowerOnly(x, lo, hi) == IF x < lo THEN lo ELSE x

Clamp(x, lo, hi) == IF x < lo THEN lo ELSE IF x > hi THEN hi ELSE x

\* percent * 0.01: a percentage in tenths is the increment in thousandths
Increment(percent) == percent

NewVol_NoClamp(vol, increment) == vol + increment

NewVol(vol, increment) == Clamp(vol + increment, VolMin, VolMax)

\* the loop over route.props.channel_volumes
ChangeVolumes_FirstOnly(channel_volumes, increment) ==
  [i \in 1..Len(channel_volumes) |->
     IF i = 1 THEN NewVol(channel_volumes[i], increment) ELSE channel_volumes[i]]

ChangeVolumes(channel_volumes, increment) ==
  [i \in 1..Len(channel_volumes) |-> NewVol(channel_volumes[i], increment)]

\* format!("{:.0}", percentage): no fractional digits, ties to even
FormatPrec0(p) ==
  LET q == p \div 10
      r == p % 10
  IN ToString(IF r < 5 THEN q
              ELSE IF r > 5 THEN q + 1
              ELSE IF q % 2 = 0 THEN q ELSE q + 1)

\* format!("{}", percentage): the shortest decimal that reads back the same
FormatDisplay(p) ==
  LET a == IF p < 0 THEN 0 - p ELSE p IN
  IF a % 10 = 0 THEN ToString(p \div 10)
  ELSE (IF p < 0 THEN "-" ELSE "") \o ToString(a \div 10) \o "." \o ToString(a % 10)

MutedLine == "{\"alt\":\"mute\", \"tooltip\":\"muted\"}"

\* the "status" arm
StatusLine(route) ==
  IF route.props.mute THEN MutedLine
  ELSE LET percentage == route.props.channel_volumes[1] IN
       "{\"percentage\":" \o FormatPrec0(percentage) \o ", \"tooltip\":\""
       \o FormatDisplay(percentage) \o "%\"}"

\* serde_json::to_string(&cmd): every field of both structs is written
to_string(cmd) ==
  [index |-> cmd.index, device |-> cmd.device,
   props |-> [mute |-> cmd.props.mute,
              channelVolumes |-> cmd.props.channel_volumes]]

\* Command::new("pw-cli").args([..])
Args(node, cmd) ==
  [kind |-> "Some",
   argv |-> <<"set-param", node.info.props.device_id, "Route", to_string(cmd)>>]

\* the "status" arm: print the line and return Ok(()) before the spawn
StatusArm_NoReturn(node, route) ==
  [err |-> "", stdout |-> StatusLine(route), cmd |-> DefaultCommand(node, route),
   args |-> Args(node, DefaultCommand(node, route))]

StatusArm(node, route) ==
  [err |-> "", stdout |-> StatusLine(route), cmd |-> None, args |-> None]

\* pw_cli up to the spawn: what is printed, what is built, what is passed on
pw_cli(matches, node, route) ==
  LET cmd == DefaultCommand(node, route) IN
  CASE matches.subcommand = "status" -> StatusArm(node, route)
    [] matches.subcommand = "mute" ->
         LET c == [cmd EXCEPT !.props.mute = MuteTransition(matches.TRANSITION, route)] IN
         [err |-> "", stdout |-> "", cmd |-> c, args |-> Args(node, c)]
    [] matches.subcommand = "change" ->
         LET delta == matches.DELTA
             percent == ParseFloat(SubSeq(delta, 1, Len(delta) - 1))
         IN IF ~percent.ok
            THEN [err |-> "invalid float literal",
                  stdout |-> "", cmd |-> None, args |-> None]
            ELSE LET c == [cmd EXCEPT !.props.channel_volumes =
                             ChangeVolumes(route.props.channel_volumes,
                                           Increment(percent.value))] IN
                 [err |-> "", stdout |-> "", cmd |-> c, args |-> Args(node, c)]

\* ------------------------------------------------------- the collaborators
\* pw-cli set-param <device id> Route <json>: the route of that device with
\* the command's index takes the command's mute flag, and its channel
\* volumes when the command carries any.
SetRouteProps(r, json) ==
  IF r.index = json.index
  THEN [r EXCEPT !.props.mute = json.props.mute,
                 !.props.channel_volumes =
                    IF json.props.channelVolumes = <<>> THEN @
                    ELSE json.props.channelVolumes]
  ELSE r

SetParamRoute(g, target, json) ==
  [i \in 1..Len(g) |->
     IF g[i].kind = "Device" /\ g[i].id = target
     THEN [g[i] EXCEPT !.info.params.route =
             [k \in 1..Len(@) |-> SetRouteProps(@[k], json)]]
     ELSE g[i]]

\* how the spawned pw-cli ends: an exit code, or death by a signal
ExitOutcomes == {0, 1, -1}
Signalled == -1

\* ------------------------------------------------------------ input sets
SinkName == "alsa_output.example"
OtherName == "other.sink"

\* objects the dumps of SpecResolve are assembled from
ObjectPalette ==
  { PipeWireInterfaceMetadata(MetadataType, <<Metadata(SinkKey, NameValue(SinkName))>>),
    PipeWireInterfaceMetadata(MetadataType,
        <<Metadata(SinkKey, OpaqueValue), Metadata("default.audio.source", NameValue(OtherName))>>),
    PipeWireInterfaceMetadata("PipeWire:Interface:Other", <<Metadata(SinkKey, NameValue(OtherName))>>),
    PipeWireInterfaceMetadata(MetadataType,
        <<Metadata(SinkKey, NameValue(OtherName)), Metadata(SinkKey, NameValue(SinkName))>>),
    PipeWireInterfaceNode(40, NodeType, SinkName, 3, 3),
    PipeWireInterfaceNode(41, NodeType, SinkName, 4, 5),
    PipeWireInterfaceNode(42, NodeType, OtherName, 3, 5),
    PipeWireInterfaceNode(43, "PipeWire:Interface:Other", SinkName, 4, 5),
    PipeWireInterfaceDevice(3, DeviceType,
        << DeviceRoute(0, "Input", FALSE, <<1000>>),
           DeviceRoute(1, "Output", FALSE, <<500, 500>>),
           DeviceRoute(2, "Output", TRUE, <<1000>>) >>),
    PipeWireInterfaceDevice(3, DeviceType, << DeviceRoute(0, "Output", FALSE, <<>>) >>),
    PipeWireInterfaceDevice(3, DeviceType, << DeviceRoute(0, "Input", FALSE, <<500>>) >>),
    PipeWireInterfaceDevice(4, DeviceType, << DeviceRoute(0, "Output", TRUE, <<424>>) >>),
    PipeWireInterfaceDevice(4, "PipeWire:Interface:Other", << DeviceRoute(5, "Output", FALSE, <<0>>) >>),
    UnknownObject }

PaletteDumps == UNION { [1..n -> ObjectPalette] : n \in 0..MaxObjs }


Chars(a, b, c, d, e, f) == SelectSeq(<<a, b, c, d, e, f>>, LAMBDA x : x # "")

Plus1000 == Chars("+", "1", "0", "0", "0", "%")
Minus1000 == Chars("-", "1", "0", "0", "0", "%")
Plus0 == Chars("+", "0", "%", "", "", "")
Plus10 == Chars("+", "1", "0", "%", "", "")
MinusHalf == Chars("-", "0", ".", "5", "%", "")
GoodDeltas == {Plus1000, Minus1000, Plus0, Plus10, MinusHalf}
\* "abc%", "1" and "%"
BadDeltas ==
  { Chars("a", "b", "c", "%", "", ""), Chars("1", "", "", "", "", ""),
    Chars("%", "", "", "", "", "") }
Deltas == GoodDeltas \cup BadDeltas

Argvs ==
  { <<"pw-volume", "mute", t>> : t \in Transitions \cup {"loud"} }
  \cup { <<"pw-volume", "change", d>> : d \in Deltas }
  \cup { <<"pw-volume", "status">>, <<"pw-volume">> }

\* channel volumes of the dumps: 0.0, 0.424, 0.5, 1.0, and above 1.0 the
\* values 1.5, 10.0 and 11.0
ChannelValues == {0, 424, 500, 1000, 1500, 10000, 11000}
ChannelVectors == UNION { [1..n -> ChannelValues] : n \in 0..MaxChannels }

SinkMetadata == PipeWireInterfaceMetadata(MetadataType, <<Metadata(SinkKey, NameValue(SinkName))>>)
SinkNode(cpd) == PipeWireInterfaceNode(40, NodeType, SinkName, 3, cpd)
SinkDevice(m, cv) ==
  PipeWireInterfaceDevice(3, DeviceType,
      << DeviceRoute(1, "Input", FALSE, <<1000>>), DeviceRoute(0, "Output", m, cv) >>)

MetadataChoices ==
  { <<>>, <<SinkMetadata>>,
    << PipeWireInterfaceMetadata(MetadataType,
         <<Metadata(SinkKey, OpaqueValue), Metadata("default.audio.source", NameValue(SinkName))>>) >>,
    << PipeWireInterfaceMetadata("PipeWire:Interface:Other", <<Metadata(SinkKey, NameValue(SinkName))>>) >> }
NodeChoices == { <<>>, <<SinkNode(3)>>, <<SinkNode(5)>> }
InputOnlyDevice ==
  PipeWireInterfaceDevice(3, DeviceType, << DeviceRoute(1, "Input", FALSE, <<1000>>) >>)
DeviceChoices ==
  { <<>>, <<InputOnlyDevice>> }
  \cup { <<SinkDevice(m, cv)>> : m \in BOOLEAN, cv \in ChannelVectors }

\* the graphs of Spec: [metadata] [node] [device], each present or not
Graphs == { md \o nd \o dv : md \in MetadataChoices, nd \in NodeChoices, dv \in DeviceChoices }

\* the graphs of SpecRuns: the sink's route, muted or not
RunGraphs ==
  { <<SinkMetadata, SinkNode(5), SinkDevice(m, cv)>> :
      m \in BOOLEAN, cv \in {<<>>, <<500>>, <<1000, 424>>} }

\* ----------------------------------------------------------------- state
VARIABLES
  argv,         \* the command line
  graph,        \* the audio graph pw-dump reports and pw-cli changes
  pc,           \* where main is
  matches,      \* the parsed command line
  obj,          \* the unmarshalled dump
  resolved,     \* parse_dump's result
  cmd,          \* the PipeWireCommand built by pw_cli
  spawned,      \* the arguments pw-cli was spawned with
  stdout,       \* the status line printed
  err,          \* the error the run ended with
  invocations,  \* how many times the run spawned pw-cli
  run,          \* the number of the run
  prev          \* the previous run

vars == <<argv, graph, pc, matches, obj, resolved, cmd, spawned, stdout, err,
          invocations, run, prev>>

Terminal == {"done", "usage", "panicked"}

Fresh ==
  /\ argv = <<>>
  /\ matches = None /\ resolved = None /\ cmd = None /\ spawned = None
  /\ stdout = "" /\ err = "" /\ invocations = 0

Init ==
  /\ graph \in Graphs
  /\ pc = "get_matches"
  /\ obj = <<>>
  /\ Fresh /\ run = 1 /\ prev = None

InitRuns ==
  /\ graph \in RunGraphs
  /\ pc = "get_matches"
  /\ obj = <<>>
  /\ Fresh /\ run = 1 /\ prev = None

\* the state after line 396, with the dump unmarshalled
InitResolve ==
  /\ obj \in PaletteDumps
  /\ graph = obj
  /\ pc = "parse_dump"
  /\ Fresh /\ run = 1 /\ prev = None

\* main, lines 348-389
GetMatches ==
  /\ pc = "get_matches"
  /\ \E a \in Argvs :
       /\ argv' = a
       /\ matches' = get_matches(a)
       /\ pc' = IF get_matches(a).ok THEN "pw_dump" ELSE "usage"
  /\ UNCHANGED <<graph, obj, resolved, cmd, spawned, stdout, err, invocations, run, prev>>

\* main, lines 392-396: pw-dump's output is the graph, or does not unmarshal
PwDump ==
  /\ pc = "pw_dump"
  /\ \/ /\ obj' = graph
        /\ pc' = "parse_dump"
        /\ UNCHANGED err
     \/ /\ err' = "failed to unmarshal PipeWireObject"
        /\ pc' = "panicked"
        /\ UNCHANGED obj
  /\ UNCHANGED <<argv, graph, matches, resolved, cmd, spawned, stdout, invocations, run, prev>>

\* main, line 397: parse_dump(&obj).unwrap()
ParseDump ==
  /\ pc = "parse_dump"
  /\ resolved' = parse_dump(obj)
  /\ IF parse_dump(obj).ok
     THEN pc' = "pw_cli" /\ UNCHANGED err
     ELSE pc' = "panicked" /\ err' = parse_dump(obj).err
  /\ UNCHANGED <<argv, graph, matches, obj, cmd, spawned, stdout, invocations, run, prev>>

\* main, line 398: pw_cli(&matches, node, route).unwrap()
PwCli ==
  /\ pc = "pw_cli"
  /\ LET r == pw_cli(matches, resolved.node, resolved.route) IN
     /\ cmd' = r.cmd
     /\ stdout' = r.stdout
     /\ IF r.args = None
        THEN /\ pc' = IF r.err = "" THEN "done" ELSE "panicked"
             /\ err' = r.err
             /\ UNCHANGED <<graph, spawned, invocations>>
        ELSE \/ \* Command::spawn fails: pw-cli never runs
                /\ pc' = "panicked"
                /\ err' = "spawn failed"
                /\ UNCHANGED <<graph, spawned, invocations>>
             \/ \E code \in ExitOutcomes :
                  /\ spawned' = r.args
                  /\ invocations' = invocations + 1
                  /\ graph' = IF code = 0
                              THEN SetParamRoute(graph, r.args.argv[2], r.args.argv[4])
                              ELSE graph
                  /\ pc' = IF code = 0 THEN "done" ELSE "panicked"
                  /\ err' = IF code = 0 THEN ""
                            ELSE IF code = Signalled THEN "pw-cli terminated by signal"
                            ELSE "pw-cli did not exit successfully"
  /\ UNCHANGED <<argv, matches, obj, resolved, run, prev>>

\* the tool is run again
NextRun ==
  /\ pc \in Terminal
  /\ run < MaxRuns
  /\ prev' = [kind |-> "Some", pc |-> pc, matches |-> matches,
              resolved |-> resolved, cmd |-> cmd, spawned |-> spawned]
  /\ run' = run + 1
  /\ pc' = "get_matches"
  /\ obj' = <<>>
  /\ argv' = <<>>
  /\ matches' = None /\ resolved' = None /\ cmd' = None /\ spawned' = None
  /\ stdout' = "" /\ err' = "" /\ invocations' = 0
  /\ UNCHANGED graph

Next == GetMatches \/ PwDump \/ ParseDump \/ PwCli
NextResolve == ParseDump
NextRuns == Next \/ NextRun

Spec == Init /\ [][Next]_vars
SpecResolve == InitResolve /\ [][NextResolve]_vars
SpecRuns == InitRuns /\ [][NextRuns]_vars

\* ------------------------------------------------ what the claims speak of
Min(S) == CHOOSE x \in S : \A y \in S : x <= y

\* the places <<object, entry>> of the name-shaped default.audio.sink
\* entries of the metadata objects of the metadata interface type
SinkPositions(o) ==
  { p \in UNION { {i} \X (1..Len(o[i].metadata)) :
                     i \in { k \in 1..Len(o) : o[k].kind = "Metadata" } } :
      /\ o[p[1]].typ = MetadataType
      /\ o[p[1]].metadata[p[2]].key = SinkKey
      /\ o[p[1]].metadata[p[2]].value.shape = "Name" }

\* the first of them in input order
FirstSinkPosition(o) ==
  CHOOSE p \in SinkPositions(o) :
    \A q \in SinkPositions(o) : p[1] < q[1] \/ (p[1] = q[1] /\ p[2] <= q[2])

SinkNameOf(o) ==
  LET p == FirstSinkPosition(o) IN o[p[1]].metadata[p[2]].value.name

NodePlaces(o) ==
  { i \in 1..Len(o) : /\ o[i].kind = "Node"
                      /\ o[i].typ = NodeType
                      /\ o[i].info.props.node_name = SinkNameOf(o) }

NodeOf(o) == o[Min(NodePlaces(o))]

DevicePlaces(o) ==
  { i \in 1..Len(o) : /\ o[i].kind = "Device"
                      /\ o[i].typ = DeviceType
                      /\ o[i].id = NodeOf(o).info.props.device_id }

DeviceOf(o) == o[Min(DevicePlaces(o))]

OutputPlaces(d) ==
  { k \in 1..Len(d.info.params.route) : d.info.params.route[k].direction = "Output" }

RouteOf(o) == DeviceOf(o).info.params.route[Min(OutputPlaces(DeviceOf(o)))]

\* the sink's node, that node's device and that device's Output route exist,
\* each the first of its kind in input order, and the route has a channel
Resolvable(o) ==
  /\ SinkPositions(o) # {}
  /\ NodePlaces(o) # {}
  /\ DevicePlaces(o) # {}
  /\ OutputPlaces(DeviceOf(o)) # {}
  /\ RouteOf(o).props.channel_volumes # <<>>

Parsed == resolved # None

\* C1: a dump with exactly one default.audio.sink entry whose name points at
\* a node with a resolvable device and Output route resolves, and to exactly
\* that node and the first Output route, in input order, of the device whose
\* id is the node's device.id.
C1_FirstMatchResolution ==
  (Parsed /\ Cardinality(SinkPositions(obj)) = 1 /\ Resolvable(obj))
    => /\ pc = "pw_cli"
       /\ resolved = Ok(NodeOf(obj), RouteOf(obj))

\* two nodes carry the sink's name and the device has two Output routes
C1_Witness ==
  /\ Parsed /\ Cardinality(SinkPositions(obj)) = 1 /\ Resolvable(obj)
  /\ Cardinality(NodePlaces(obj)) = 2
  /\ Cardinality(OutputPlaces(DeviceOf(obj))) = 2
  /\ resolved.ok
  /\ resolved.node = obj[2]
  /\ resolved.route.index = 1

\* C2: a dump in which no metadata object of the metadata interface type has
\* a name-shaped default.audio.sink entry fails with the default-sink error,
\* whatever nodes, devices and routes it holds, and no command is built or
\* sent.
C2_NoSinkFails ==
  (Parsed /\ SinkPositions(obj) = {})
    => /\ ~resolved.ok
       /\ resolved.err = ErrSink
       /\ pc = "panicked"
       /\ err = ErrSink
       /\ cmd = None
       /\ spawned = None
       /\ invocations = 0

\* the sink key sits in an object of another type, beside a node and a device
C2_Witness ==
  /\ Parsed /\ SinkPositions(obj) = {}
  /\ Len(obj) = 3
  /\ obj[1].kind = "Metadata" /\ obj[1].metadata[1].key = SinkKey
  /\ obj[2].kind = "Node"
  /\ obj[3].kind = "Device"
  /\ err = ErrSink

IsSub(m, sub) == m # None /\ m.ok /\ m.subcommand = sub

EarlyErrors ==
  { "failed to unmarshal PipeWireObject", ErrSink, ErrNode, ErrDevice, ErrRoute,
    ErrChannels, "invalid float literal" }

\* C3: pw-cli is invoked at most once in a run, and only after the command
\* line, the dump, the resolution and the command are all there; a rejected
\* delta, a parse error or a resolution error ends the run with no
\* invocation, and status never invokes it.
C3_ConsumerOnlyAfterSuccess ==
  /\ invocations <= 1
  /\ invocations = 1
       => /\ IsSub(matches, "mute") \/ IsSub(matches, "change")
          /\ Resolvable(obj)
          /\ Parsed /\ resolved.ok
          /\ cmd # None
          /\ spawned # None /\ spawned.argv[4] = to_string(cmd)
  /\ (pc = "usage" \/ err \in EarlyErrors) => (invocations = 0 /\ spawned = None)
  /\ (Len(argv) = 3 /\ argv[2] = "change" /\ argv[3] \in BadDeltas)
       => (pc = "usage" /\ invocations = 0 /\ spawned = None)
  /\ IsSub(matches, "status") => (invocations = 0 /\ spawned = None)

\* a command went to pw-cli, which exited with 0
C3_Witness ==
  /\ pc = "done" /\ invocations = 1 /\ spawned # None
  /\ IsSub(matches, "change")

\* the change arm ran: the resolved route's channels and the command's
Changed == IsSub(matches, "change") /\ cmd # None
ChangedBy(d) == Changed /\ matches.DELTA = d
Cur == resolved.route.props.channel_volumes
New == cmd.props.channel_volumes

\* the deltas' increments, in thousandths: 10.0, -10.0, 0.0, 0.1, -0.005
IncrementOf(d) ==
  CASE d = Plus1000 -> 10000
    [] d = Minus1000 -> -10000
    [] d = Plus0 -> 0
    [] d = Plus10 -> 100
    [] d = MinusHalf -> -5

Unclamped(i) ==
  LET moved == Cur[i] + IncrementOf(matches.DELTA) IN moved >= 0 /\ moved <= 1000

IsToggle(m) == IsSub(m, "mute") /\ m.TRANSITION = "toggle"

\* the run before was a mute toggle that pw-cli applied, and this one is too
ToggledTwice ==
  /\ prev # None
  /\ IsToggle(prev.matches)
  /\ prev.pc = "done"
  /\ IsToggle(matches)

Nearest(p) ==
  CHOOSE n \in {p \div 10, (p \div 10) + 1} :
    \A m \in {p \div 10, (p \div 10) + 1} :
      (IF 10 * n >= p THEN 10 * n - p ELSE p - 10 * n)
        <= (IF 10 * m >= p THEN 10 * m - p ELSE p - 10 * m)

\* C7 as stated: status prints the fixed muted line for a muted route, and
\* for an unmuted one channel[0]*100 rounded to the nearest integer, both as
\* the percentage and, followed by '%', as the tooltip.
C7_StatusRoundsBothFields ==
  (IsSub(matches, "status") /\ pc = "done")
    => stdout = IF resolved.route.props.mute
                THEN "{\"alt\":\"mute\", \"tooltip\":\"muted\"}"
                ELSE "{\"percentage\":" \o ToString(Nearest(Cur[1]))
                     \o ", \"tooltip\":\"" \o ToString(Nearest(Cur[1])) \o "%\"}"

\* the dump of the round-trip scenario
Scenario(o) ==
  /\ Resolvable(o)
  /\ SinkNameOf(o) = "alsa_output.example"
  /\ NodeOf(o).info.props.device_id = 3
  /\ DeviceOf(o).id = 3
  /\ RouteOf(o).index = 0
  /\ RouteOf(o).props = [mute |-> FALSE, channel_volumes |-> <<500, 500>>]

Sent == spawned.argv[4]

\* C8 as stated: in the scenario change("+10%") sends
\* {"index":0,"device":3,"props":{"mute":false,"channelVolumes":[0.6,0.6]}}.
C8_ScenarioCommandDeviceId ==
  (Scenario(obj) /\ ChangedBy(Plus10) /\ spawned # None)
    => Sent = [index |-> 0, device |-> 3,
               props |-> [mute |-> FALSE, channelVolumes |-> <<600, 600>>]]

\* C8, amended: in the scenario change("+10%") resolves to that route and
\* sends, to device 3, the command with the route's index 0, mute false and
\* channelVolumes [0.6,0.6], whose device field is the node's
\* card.profile.device.
C8_ScenarioCommandProfileDevice ==
  (Scenario(obj) /\ ChangedBy(Plus10) /\ spawned # None)
    => /\ resolved.route = RouteOf(obj)
       /\ spawned.argv[2] = 3
       /\ Sent = [index |-> 0, device |-> NodeOf(obj).info.props.card_profile_device,
                  props |-> [mute |-> FALSE, channelVolumes |-> <<600, 600>>]]

\* the node's card.profile.device is 5, and so is the command's device
C8_Witness ==
  /\ Scenario(obj) /\ ChangedBy(Plus10) /\ spawned # None
  /\ NodeOf(obj).info.props.card_profile_device = 5
  /\ Sent.device = 5
  /\ Sent.index = 0

\* C9 as stated: no command handed to pw-cli has an empty channelVolumes,
\* and a field the operation leaves alone is not in the command.
C9_UnsetFieldsOmitted ==
  spawned # None
    => /\ IsSub(matches, "mute") => "channelVolumes" \notin DOMAIN Sent.props
       /\ IsSub(matches, "change") => "mute" \notin DOMAIN Sent.props
       /\ "channelVolumes" \in DOMAIN Sent.props => Sent.props.channelVolumes # <<>>

====
